---- MODULE Spec2Model ----
(***************************************************************************)
(* Seam carving (src/src/seam_carving.cpp): the Cube and Energy arrays,    *)
(* dual_gradient_energy, find_vertical_seam / find_horizontal_seam,        *)
(* delete_vertical_seam / delete_horizontal_seam, and the carving loop of  *)
(* main.                                                                   *)
(*                                                                         *)
(* Arrays are functions over 0..n-1 (C++ indexing).  An array that `new`   *)
(* leaves uninitialised is a function whose domain holds only the indices  *)
(* written so far.                                                         *)
(***************************************************************************)
EXTENDS Integers, FiniteSets, Sequences, TLC

VARIABLES img, in_width, in_height, cube, new_width, new_height, H, W,
          energy, seam, output, touched, dp_touched, live_seams, pc

vars == <<img, in_width, in_height, cube, new_width, new_height, H, W,
          energy, seam, output, touched, dp_touched, live_seams, pc>>

----------------------------------------------------------------------------
(* Bounds of the model *)

\* largest img.rows
MaxH == 3
\* largest img.cols
MaxW == 3
\* largest img.rows * img.cols
MaxCells == 9

\* values an energy cell takes when a seam search is called on its own
EnergyLevels == {0, 1, 3}

\* (size_t)(-1): the largest size_t.  The code only ever compares it with a
\* dimension; the number stands for 2^64 - 1.
SIZE_MAX == 2147483647

\* depth of the Cube main builds
Depth == 3

----------------------------------------------------------------------------
(* Cube and Energy *)

Empty == [i \in {} |-> 0]

Cube(h, w, d) == [height |-> h, width |-> w, depth |-> d, data |-> Empty]

CubeIndex(c, y, x, ch) == (y * c.width + x) * c.depth + ch

CubeAt(c, y, x, ch) == c.data[CubeIndex(c, y, x, ch)]

CubeSet(c, y, x, ch, v) == [c EXCEPT !.data = (CubeIndex(c, y, x, ch) :> v) @@ c.data]

EnergyAt(e, y, x) == e.data[y * e.width + x]

\* The one element of a singleton set.  { F(v) : v \in {e} } evaluates e once
\* and hands F its value; a loop's accumulator is threaded through it so that
\* each iteration is evaluated once.
TheOne(S) == CHOOSE r \in S : TRUE

\* (size_t) of an int
CastSizeT(i) == IF i < 0 THEN SIZE_MAX ELSE i

----------------------------------------------------------------------------
(* dual_gradient_energy *)

\* the four neighbours of (row_number, column_number), wrapped modulo the
\* height and width the caller passes
GradientNeighboursOfAllocation(c, row_number, column_number, height, width) ==
    [upper_pixel |-> (row_number + c.height - 1) % c.height,
     lower_pixel |-> (row_number + 1) % c.height,
     left_pixel  |-> (column_number + c.width - 1) % c.width,
     right_pixel |-> (column_number + 1) % c.width]

GradientNeighbours(c, row_number, column_number, height, width) ==
    [upper_pixel |-> (row_number + height - 1) % height,
     lower_pixel |-> (row_number + 1) % height,
     left_pixel  |-> (column_number + width - 1) % width,
     right_pixel |-> (column_number + 1) % width]

PixelEnergy(c, row_number, column_number, height, width) ==
    LET n   == GradientNeighbours(c, row_number, column_number, height, width)
        bx  == CubeAt(c, row_number, n.right_pixel, 0) - CubeAt(c, row_number, n.left_pixel, 0)
        gx  == CubeAt(c, row_number, n.right_pixel, 1) - CubeAt(c, row_number, n.left_pixel, 1)
        rx  == CubeAt(c, row_number, n.right_pixel, 2) - CubeAt(c, row_number, n.left_pixel, 2)
        dx2 == bx * bx + gx * gx + rx * rx
        by  == CubeAt(c, n.lower_pixel, column_number, 0) - CubeAt(c, n.upper_pixel, column_number, 0)
        gy  == CubeAt(c, n.lower_pixel, column_number, 1) - CubeAt(c, n.upper_pixel, column_number, 1)
        ry  == CubeAt(c, n.lower_pixel, column_number, 2) - CubeAt(c, n.upper_pixel, column_number, 2)
        dy2 == by * by + gy * gy + ry * ry
    IN  dx2 + dy2

dual_gradient_energy(c, height, width, depth) ==
    [height |-> height, width |-> width,
     data |-> [i \in 0 .. height * width - 1 |->
                 PixelEnergy(c, i \div width, i % width, height, width)]]

\* the cube coordinates dual_gradient_energy reads
dual_gradient_reads(c, height, width) ==
    UNION { LET n == GradientNeighbours(c, y, x, height, width)
            IN  {<<y, n.right_pixel>>, <<y, n.left_pixel>>,
                 <<n.lower_pixel, x>>, <<n.upper_pixel, x>>}
            : <<y, x>> \in (0 .. height - 1) \X (0 .. width - 1) }

----------------------------------------------------------------------------
(* find_vertical_seam *)

\* first row of the DP tables
VInitTables(e, height, width) ==
    [dist |-> [i \in 0 .. width - 1 |-> EnergyAt(e, 0, i)],
     back |-> [i \in 0 .. width - 1 |-> -1]]

VBestPredNoRight(dist, row_number, column_number, width) ==
    LET up   == dist[(row_number - 1) * width + column_number]
        s0   == [best_val |-> up, best_x |-> column_number]
    IN  IF column_number > 0
           /\ dist[(row_number - 1) * width + (column_number - 1)] < s0.best_val
        THEN [best_val |-> dist[(row_number - 1) * width + (column_number - 1)],
              best_x   |-> column_number - 1]
        ELSE s0

VBestPredLeftOnTie(dist, row_number, column_number, width) ==
    LET up   == dist[(row_number - 1) * width + column_number]
        s0   == [best_val |-> up, best_x |-> column_number]
        s1   == IF column_number > 0
                   /\ dist[(row_number - 1) * width + (column_number - 1)] <= s0.best_val
                THEN [best_val |-> dist[(row_number - 1) * width + (column_number - 1)],
                      best_x   |-> column_number - 1]
                ELSE s0
    IN  IF column_number + 1 < width
           /\ dist[(row_number - 1) * width + (column_number + 1)] < s1.best_val
        THEN [best_val |-> dist[(row_number - 1) * width + (column_number + 1)],
              best_x   |-> column_number + 1]
        ELSE s1

\* best predecessor of (row_number, column_number) among (y-1,x-1), (y-1,x), (y-1,x+1)
VBestPred(dist, row_number, column_number, width) ==
    LET up   == dist[(row_number - 1) * width + column_number]
        s0   == [best_val |-> up, best_x |-> column_number]
        s1   == IF column_number > 0
                   /\ dist[(row_number - 1) * width + (column_number - 1)] < s0.best_val
                THEN [best_val |-> dist[(row_number - 1) * width + (column_number - 1)],
                      best_x   |-> column_number - 1]
                ELSE s0
    IN  IF column_number + 1 < width
           /\ dist[(row_number - 1) * width + (column_number + 1)] < s1.best_val
        THEN [best_val |-> dist[(row_number - 1) * width + (column_number + 1)],
              best_x   |-> column_number + 1]
        ELSE s1

\* the fill loops, cell k = row_number * width + column_number in row-major order
RECURSIVE VFill(_, _, _, _, _)
VFill(t, e, k, height, width) ==
    IF k >= height * width THEN t
    ELSE LET row_number    == k \div width
             column_number == k % width
             Cell(tt, p) ==
                 [dist |-> (k :> (p.best_val + EnergyAt(e, row_number, column_number))) @@ tt.dist,
                  back |-> (k :> p.best_x) @@ tt.back]
         IN  TheOne({ TheOne({ VFill(Cell(tt, p), e, k + 1, height, width) :
                               p \in {VBestPred(tt.dist, row_number, column_number, width)} }) :
                      tt \in {t} })

\* scan of the last row for the smallest dist
RECURSIVE VScan(_, _, _, _, _, _)
VScan(dist, height, width, column_number, best_col, best_sum) ==
    IF column_number >= width THEN best_col
    ELSE LET v == dist[(height - 1) * width + column_number]
         IN  IF v < best_sum
             THEN VScan(dist, height, width, column_number + 1, column_number, v)
             ELSE VScan(dist, height, width, column_number + 1, best_col, best_sum)

VBestCol(dist, height, width) ==
    VScan(dist, height, width, 1, 0, dist[(height - 1) * width + 0])

RECURSIVE VBackRowAbove(_, _, _, _)
VBackRowAbove(back, width, row_number, s) ==
    IF row_number > 0
    THEN LET prev_column_number == back[(row_number - 1) * width + s[row_number]]
         IN  VBackRowAbove(back, width, row_number - 1,
                   ((row_number - 1) :> CastSizeT(prev_column_number)) @@ s)
    ELSE s

\* reconstruction, bottom -> top
RECURSIVE VBack(_, _, _, _)
VBack(back, width, row_number, s) ==
    IF row_number > 0
    THEN LET prev_column_number == back[row_number * width + s[row_number]]
         IN  VBack(back, width, row_number - 1,
                   ((row_number - 1) :> CastSizeT(prev_column_number)) @@ s)
    ELSE s

VTables(e, height, width) == VFill(VInitTables(e, height, width), e, width, height, width)

find_vertical_seam(e, height, width) ==
    LET t        == VTables(e, height, width)
        best_col == VBestCol(t.dist, height, width)
    IN  VBack(t.back, width, height - 1, ((height - 1) :> best_col))

\* the indices of dist / back that find_vertical_seam reads or writes
find_vertical_seam_indices(e, height, width) ==
    LET s == find_vertical_seam(e, height, width)
    IN  { 0 * width + x : x \in 0 .. width - 1 }
        \cup UNION { {(y - 1) * width + x, y * width + x}
                     \cup (IF x > 0 THEN {(y - 1) * width + (x - 1)} ELSE {})
                     \cup (IF x + 1 < width THEN {(y - 1) * width + (x + 1)} ELSE {})
                     : <<y, x>> \in (1 .. height - 1) \X (0 .. width - 1) }
        \cup { (height - 1) * width + x : x \in 0 .. width - 1 }
        \cup { y * width + s[y] : y \in 1 .. height - 1 }

----------------------------------------------------------------------------
(* find_horizontal_seam *)

\* first column of the DP tables
HInitTables(e, height, width) ==
    [dist |-> [i \in { y * width + 0 : y \in 0 .. height - 1 } |-> EnergyAt(e, i \div width, 0)],
     back |-> [i \in { y * width + 0 : y \in 0 .. height - 1 } |-> -1]]

\* best predecessor of (row_number, column_number) among (y-1,x-1), (y,x-1), (y+1,x-1)
HBestPred(dist, row_number, column_number, height, width) ==
    LET s0   == [best_val |-> dist[row_number * width + (column_number - 1)],
                 best_y   |-> row_number]
        s1   == IF row_number > 0
                   /\ dist[(row_number - 1) * width + (column_number - 1)] < s0.best_val
                THEN [best_val |-> dist[(row_number - 1) * width + (column_number - 1)],
                      best_y   |-> row_number - 1]
                ELSE s0
    IN  IF row_number + 1 < height
           /\ dist[(row_number + 1) * width + (column_number - 1)] < s1.best_val
        THEN [best_val |-> dist[(row_number + 1) * width + (column_number - 1)],
              best_y   |-> row_number + 1]
        ELSE s1

\* the fill loops, cell k = column_number * height + row_number in column-major order
RECURSIVE HFill(_, _, _, _, _)
HFill(t, e, k, height, width) ==
    IF k >= height * width THEN t
    ELSE LET column_number == k \div height
             row_number    == k % height
             i == row_number * width + column_number
             Cell(tt, p) ==
                 [dist |-> (i :> (p.best_val + EnergyAt(e, row_number, column_number))) @@ tt.dist,
                  back |-> (i :> p.best_y) @@ tt.back]
         IN  TheOne({ TheOne({ HFill(Cell(tt, p), e, k + 1, height, width) :
                               p \in {HBestPred(tt.dist, row_number, column_number, height, width)} }) :
                      tt \in {t} })

\* scan of the last column for the smallest dist
RECURSIVE HScan(_, _, _, _, _, _)
HScan(dist, height, width, row_number, best_row, best_sum) ==
    IF row_number >= height THEN best_row
    ELSE LET v == dist[row_number * width + (width - 1)]
         IN  IF v < best_sum
             THEN HScan(dist, height, width, row_number + 1, row_number, v)
             ELSE HScan(dist, height, width, row_number + 1, best_row, best_sum)

HBestRow(dist, height, width) ==
    HScan(dist, height, width, 1, 0, dist[0 * width + (width - 1)])

RECURSIVE HBackColumnLeft(_, _, _, _)
HBackColumnLeft(back, width, column_number, s) ==
    IF column_number > 0
    THEN LET prev_y == back[s[column_number] * width + (column_number - 1)]
         IN  HBackColumnLeft(back, width, column_number - 1,
                   ((column_number - 1) :> CastSizeT(prev_y)) @@ s)
    ELSE s

\* reconstruction, right -> left
RECURSIVE HBack(_, _, _, _)
HBack(back, width, column_number, s) ==
    IF column_number > 0
    THEN LET prev_y == back[s[column_number] * width + column_number]
         IN  HBack(back, width, column_number - 1,
                   ((column_number - 1) :> CastSizeT(prev_y)) @@ s)
    ELSE s

HTables(e, height, width) == HFill(HInitTables(e, height, width), e, height, height, width)

find_horizontal_seam(e, height, width) ==
    LET t        == HTables(e, height, width)
        best_row == HBestRow(t.dist, height, width)
    IN  HBack(t.back, width, width - 1, ((width - 1) :> best_row))

\* the indices of dist / back that find_horizontal_seam reads or writes
find_horizontal_seam_indices(e, height, width) ==
    LET s == find_horizontal_seam(e, height, width)
    IN  { y * width + 0 : y \in 0 .. height - 1 }
        \cup UNION { {y * width + (x - 1), y * width + x}
                     \cup (IF y > 0 THEN {(y - 1) * width + (x - 1)} ELSE {})
                     \cup (IF y + 1 < height THEN {(y + 1) * width + (x - 1)} ELSE {})
                     : <<y, x>> \in (0 .. height - 1) \X (1 .. width - 1) }
        \cup { y * width + (width - 1) : y \in 0 .. height - 1 }
        \cup { s[x] * width + x : x \in 1 .. width - 1 }

----------------------------------------------------------------------------
(* cv::Mat, cubeToMat, show_with_vertical_seam / show_with_horizontal_seam *)

Mat(rows, cols, px) == [rows |-> rows, cols |-> cols, px |-> px]

NoMat == Mat(0, 0, [p \in {} |-> <<0, 0, 0>>])

cubeToMat(c, height, width) ==
    Mat(height, width,
        [p \in (0 .. height - 1) \X (0 .. width - 1) |->
            <<CubeAt(c, p[1], p[2], 0), CubeAt(c, p[1], p[2], 1), CubeAt(c, p[1], p[2], 2)>>])

\* the cube coordinates cubeToMat reads
cubeToMat_reads(height, width) == (0 .. height - 1) \X (0 .. width - 1)

\* the coordinates of vis that show_with_vertical_seam paints
show_with_vertical_seam_paints(height, width, s) ==
    UNION { IF s[y] >= width THEN {}
            ELSE {<<y, s[y]>>}
                 \cup (IF s[y] > 0 THEN {<<y, s[y] - 1>>} ELSE {})
                 \cup (IF s[y] + 1 < width THEN {<<y, s[y] + 1>>} ELSE {})
            : y \in 0 .. height - 1 }

\* the coordinates of vis that show_with_horizontal_seam paints
show_with_horizontal_seam_paints(height, width, s) ==
    UNION { IF s[x] >= height THEN {}
            ELSE {<<s[x], x>>}
                 \cup (IF s[x] > 0 THEN {<<s[x] - 1, x>>} ELSE {})
                 \cup (IF s[x] + 1 < height THEN {<<s[x] + 1, x>>} ELSE {})
            : x \in 0 .. width - 1 }

----------------------------------------------------------------------------
(* delete_vertical_seam / delete_horizontal_seam *)

\* cube(y, x, *) = cube(y2, x2, *), the three channel assignments
CopyPixel(c, y, x, y2, x2) ==
    TheOne({ TheOne({ CubeSet(c1, y, x, 2, CubeAt(c1, y2, x2, 2)) :
                      c1 \in {CubeSet(c0, y, x, 1, CubeAt(c0, y2, x2, 1))} }) :
             c0 \in {CubeSet(c, y, x, 0, CubeAt(c, y2, x2, 0))} })

\* the inner loop: shift the pixels after j left by one
RECURSIVE VShift(_, _, _, _)
VShift(c, y, j, width) ==
    IF j < width - 1
    THEN TheOne({ VShift(cc, y, j + 1, width) : cc \in {CopyPixel(c, y, j, y, j + 1)} })
    ELSE c

RECURSIVE VDeleteRows(_, _, _, _, _)
VDeleteRows(c, s, y, height, width) ==
    IF y < height
    THEN IF s[y] >= width
         THEN VDeleteRows(c, s, y + 1, height, width)
         ELSE TheOne({ VDeleteRows(cc, s, y + 1, height, width) :
                       cc \in {VShift(c, y, s[y], width)} })
    ELSE c

delete_vertical_seam_ShiftAfter(c, s, height, width) ==
    [cube |-> VDeleteRows(c, [y \in DOMAIN s |-> s[y] + 1], 0, height, width),
     height |-> height, width |-> width - 1]

delete_vertical_seam(c, s, height, width) ==
    [cube |-> VDeleteRows(c, s, 0, height, width), height |-> height, width |-> width - 1]

\* the cube coordinates delete_vertical_seam reads or writes
delete_vertical_seam_coords(s, height, width) ==
    UNION { IF s[y] >= width THEN {}
            ELSE UNION { {<<y, j>>, <<y, j + 1>>} : j \in s[y] .. width - 2 }
            : y \in 0 .. height - 1 }

\* the inner loop: shift the pixels after i up by one
RECURSIVE HShift(_, _, _, _)
HShift(c, x, i, height) ==
    IF i < height - 1
    THEN TheOne({ HShift(cc, x, i + 1, height) : cc \in {CopyPixel(c, i, x, i + 1, x)} })
    ELSE c

RECURSIVE HDeleteColumns(_, _, _, _, _)
HDeleteColumns(c, s, x, height, width) ==
    IF x < width
    THEN IF s[x] >= height
         THEN HDeleteColumns(c, s, x + 1, height, width)
         ELSE TheOne({ HDeleteColumns(cc, s, x + 1, height, width) :
                       cc \in {HShift(c, x, s[x], height)} })
    ELSE c

delete_horizontal_seam(c, s, height, width) ==
    [cube |-> HDeleteColumns(c, s, 0, height, width), height |-> height - 1, width |-> width]

\* the cube coordinates delete_horizontal_seam reads or writes
delete_horizontal_seam_coords(s, height, width) ==
    UNION { IF s[x] >= height THEN {}
            ELSE UNION { {<<i, x>>, <<i + 1, x>>} : i \in s[x] .. height - 2 }
            : x \in 0 .. width - 1 }

----------------------------------------------------------------------------
(* Input images *)

\* every pixel different from every other
TaggedImage(h, w) ==
    Mat(h, w, [p \in (0 .. h - 1) \X (0 .. w - 1) |->
                 LET k == p[1] * w + p[2]
                 IN  <<(37 * k + 11) % 256, (91 * k + 5) % 256, (53 * k * k + 7) % 256>>])

Backgrounds == { <<10, 20, 30>>, <<120, 120, 120>> }

Bright == <<255, 250, 240>>

UniformImage(h, w, bg) == Mat(h, w, [p \in (0 .. h - 1) \X (0 .. w - 1) |-> bg])

\* one bright pixel at (oy, ox) on a uniform background
OutlierImage(h, w, bg, oy, ox) ==
    Mat(h, w, [p \in (0 .. h - 1) \X (0 .. w - 1) |-> IF p = <<oy, ox>> THEN Bright ELSE bg])

Sizes == { s \in (1 .. MaxH) \X (1 .. MaxW) : s[1] * s[2] <= MaxCells }

Images ==
    UNION { {TaggedImage(s[1], s[2])}
            \cup { UniformImage(s[1], s[2], bg) : bg \in Backgrounds }
            \cup { OutlierImage(s[1], s[2], bg, o[1], o[2]) :
                     bg \in Backgrounds, o \in (0 .. s[1] - 1) \X (0 .. s[2] - 1) }
            : s \in Sizes }

\* the copy loops of main: cube(y, x, c) = row[x][c] for every pixel of img
LoadCube(c, m) ==
    [c EXCEPT !.data = [i \in 0 .. m.rows * m.cols * c.depth - 1 |->
                          m.px[<<(i \div c.depth) \div c.width, (i \div c.depth) % c.width>>]
                              [(i % c.depth) + 1]]]

NoEnergy == [height |-> 0, width |-> 0, data |-> Empty]

----------------------------------------------------------------------------
(* main *)

Init ==
    /\ img = NoMat
    /\ in_width = 0
    /\ in_height = 0
    /\ cube = Cube(0, 0, Depth)
    /\ new_width = 0
    /\ new_height = 0
    /\ H = 0
    /\ W = 0
    /\ energy = NoEnergy
    /\ seam = Empty
    /\ output = NoMat
    /\ touched = {}
    /\ dp_touched = {}
    /\ live_seams = 0
    /\ pc = "start"

\* cv::imread returns an empty Mat: "Image not found", return 0
ImageNotFound ==
    /\ pc = "start"
    /\ pc' = "not_found"
    /\ UNCHANGED <<live_seams, img, in_width, in_height, cube, new_width, new_height, H, W,
                   energy, seam, output, touched, dp_touched>>

\* cv::imread decodes the image, Cube cube(img.rows, img.cols, 3), and
\* cin >> new_width, cin >> new_height
ReadInput ==
    /\ pc = "start"
    /\ img' \in Images
    /\ in_width' \in 0 .. img'.cols + 1
    /\ in_height' \in 0 .. img'.rows + 1
    /\ cube' = Cube(img'.rows, img'.cols, Depth)
    /\ new_width' = in_width'
    /\ new_height' = in_height'
    /\ pc' = "load"
    /\ UNCHANGED <<live_seams, H, W, energy, seam, output, touched, dp_touched>>

\* the loops that copy img into cube
LoadImage ==
    /\ pc = "load"
    /\ cube' = LoadCube(cube, img)
    /\ touched' = (0 .. img.rows - 1) \X (0 .. img.cols - 1)
    /\ pc' = "energy0"
    /\ UNCHANGED <<live_seams, img, in_width, in_height, new_width, new_height, H, W,
                   energy, seam, output, dp_touched>>

\* Energy energy = dual_gradient_energy(cube, img.rows, img.cols, 3); H and W
InitialEnergy ==
    /\ pc = "energy0"
    /\ energy' = dual_gradient_energy(cube, img.rows, img.cols, Depth)
    /\ touched' = dual_gradient_reads(cube, img.rows, img.cols)
    /\ H' = img.rows
    /\ W' = img.cols
    /\ pc' = "clamp"
    /\ UNCHANGED <<live_seams, img, in_width, in_height, cube, new_width, new_height,
                   seam, output, dp_touched>>

\* if (new_height > H) new_height = H; if (new_width > W) new_width = W;
ClampTarget ==
    /\ pc = "clamp"
    /\ new_height' = IF new_height > H THEN H ELSE new_height
    /\ new_width' = IF new_width > W THEN W ELSE new_width
    /\ touched' = {}
    /\ pc' = "w_test"
    /\ UNCHANGED <<live_seams, img, in_width, in_height, cube, H, W, energy, seam, output, dp_touched>>

WidthCondInclusive(w, target) == w >= target /\ w >= 2

WidthCondZeroIsNoTarget(w, target) == w > target /\ target >= 1

WidthCondNoFloor(w, target) == w > target

\* while (W > new_width && W >= 2)
WidthCond(w, target) == w > target /\ w >= 2

\* while (H > new_height && H >= 2)
HeightCond(h, target) == h > target /\ h >= 2

WidthEnter ==
    /\ pc = "w_test"
    /\ WidthCond(W, new_width)
    /\ touched' = {}
    /\ pc' = "w_energy"
    /\ UNCHANGED <<live_seams, img, in_width, in_height, cube, new_width, new_height, H, W,
                   energy, seam, output, dp_touched>>

WidthExitAnyTime ==
    /\ pc = "w_test"
    /\ touched' = {}
    /\ pc' = "h_test"
    /\ UNCHANGED <<live_seams, img, in_width, in_height, cube, new_width, new_height, H, W,
                   energy, seam, output, dp_touched>>

WidthExit ==
    /\ pc = "w_test"
    /\ ~WidthCond(W, new_width)
    /\ touched' = {}
    /\ pc' = "h_test"
    /\ UNCHANGED <<live_seams, img, in_width, in_height, cube, new_width, new_height, H, W,
                   energy, seam, output, dp_touched>>

WidthEnergy ==
    /\ pc = "w_energy"
    /\ energy' = dual_gradient_energy(cube, H, W, Depth)
    /\ touched' = dual_gradient_reads(cube, H, W)
    /\ pc' = "w_find"
    /\ UNCHANGED <<live_seams, img, in_width, in_height, cube, new_width, new_height, H, W,
                   seam, output, dp_touched>>

\* const size_t* seam = find_vertical_seam(energy, H, W): the search returns a
\* new size_t[height] that its caller is to delete[]
WidthFind ==
    /\ pc = "w_find"
    /\ seam' = find_vertical_seam(energy, H, W)
    /\ dp_touched' = find_vertical_seam_indices(energy, H, W)
    /\ touched' = {}
    /\ pc' = "w_show"
    /\ live_seams' = live_seams + 1
    /\ UNCHANGED <<img, in_width, in_height, cube, new_width, new_height, H, W,
                   energy, output>>

WidthShow ==
    /\ pc = "w_show"
    /\ touched' = cubeToMat_reads(H, W) \cup show_with_vertical_seam_paints(H, W, seam)
    /\ pc' = "w_delete"
    /\ UNCHANGED <<live_seams, img, in_width, in_height, cube, new_width, new_height, H, W,
                   energy, seam, output, dp_touched>>

WidthDelete ==
    /\ pc = "w_delete"
    /\ LET r == delete_vertical_seam(cube, seam, H, W)
       IN  /\ cube' = r.cube
           /\ H' = r.height
           /\ W' = r.width
    /\ touched' = delete_vertical_seam_coords(seam, H, W)
    /\ pc' = "w_after"
    /\ UNCHANGED <<live_seams, img, in_width, in_height, new_width, new_height,
                   energy, seam, output, dp_touched>>

\* cv::Mat out_after = cubeToMat(cube, H, W); imshow; waitKey; the body ends
\* and seam goes out of scope with no delete[]
WidthAfter ==
    /\ pc = "w_after"
    /\ touched' = cubeToMat_reads(H, W)
    /\ pc' = "w_test"
    /\ UNCHANGED <<live_seams, img, in_width, in_height, cube, new_width, new_height, H, W,
                   energy, seam, output, dp_touched>>

HeightEnter ==
    /\ pc = "h_test"
    /\ HeightCond(H, new_height)
    /\ touched' = {}
    /\ pc' = "h_energy"
    /\ UNCHANGED <<live_seams, img, in_width, in_height, cube, new_width, new_height, H, W,
                   energy, seam, output, dp_touched>>

HeightExit ==
    /\ pc = "h_test"
    /\ ~HeightCond(H, new_height)
    /\ touched' = {}
    /\ pc' = "export"
    /\ UNCHANGED <<live_seams, img, in_width, in_height, cube, new_width, new_height, H, W,
                   energy, seam, output, dp_touched>>

HeightEnergy ==
    /\ pc = "h_energy"
    /\ energy' = dual_gradient_energy(cube, H, W, Depth)
    /\ touched' = dual_gradient_reads(cube, H, W)
    /\ pc' = "h_find"
    /\ UNCHANGED <<live_seams, img, in_width, in_height, cube, new_width, new_height, H, W,
                   seam, output, dp_touched>>

HeightFind ==
    /\ pc = "h_find"
    /\ seam' = find_horizontal_seam(energy, H, W)
    /\ dp_touched' = find_horizontal_seam_indices(energy, H, W)
    /\ touched' = {}
    /\ pc' = "h_show"
    /\ live_seams' = live_seams + 1
    /\ UNCHANGED <<img, in_width, in_height, cube, new_width, new_height, H, W,
                   energy, output>>

HeightShow ==
    /\ pc = "h_show"
    /\ touched' = cubeToMat_reads(H, W) \cup show_with_horizontal_seam_paints(H, W, seam)
    /\ pc' = "h_delete"
    /\ UNCHANGED <<live_seams, img, in_width, in_height, cube, new_width, new_height, H, W,
                   energy, seam, output, dp_touched>>

HeightDelete ==
    /\ pc = "h_delete"
    /\ LET r == delete_horizontal_seam(cube, seam, H, W)
       IN  /\ cube' = r.cube
           /\ H' = r.height
           /\ W' = r.width
    /\ touched' = delete_horizontal_seam_coords(seam, H, W)
    /\ pc' = "h_after"
    /\ UNCHANGED <<live_seams, img, in_width, in_height, new_width, new_height,
                   energy, seam, output, dp_touched>>

HeightAfter ==
    /\ pc = "h_after"
    /\ touched' = cubeToMat_reads(H, W)
    /\ pc' = "h_test"
    /\ UNCHANGED <<live_seams, img, in_width, in_height, cube, new_width, new_height, H, W,
                   energy, seam, output, dp_touched>>

\* cv::Mat final_out = cubeToMat(cube, H, W); imwrite("output.png", final_out)
Export ==
    /\ pc = "export"
    /\ output' = cubeToMat(cube, H, W)
    /\ touched' = cubeToMat_reads(H, W)
    /\ pc' = "done"
    /\ UNCHANGED <<live_seams, img, in_width, in_height, cube, new_width, new_height, H, W,
                   energy, seam, dp_touched>>

Next ==
    \/ ImageNotFound \/ ReadInput
    \/ LoadImage \/ InitialEnergy \/ ClampTarget
    \/ WidthEnter \/ WidthExit \/ WidthEnergy \/ WidthFind \/ WidthShow
    \/ WidthDelete \/ WidthAfter
    \/ HeightEnter \/ HeightExit \/ HeightEnergy \/ HeightFind \/ HeightShow
    \/ HeightDelete \/ HeightAfter
    \/ Export

Spec == Init /\ [][Next]_vars

\* main is one sequential thread: it always takes its next step
FairSpec == Spec /\ WF_vars(Next)

----------------------------------------------------------------------------
(* The seam searches and the seam deletions called on their own: any energy *)
(* field, any in-range seam, any logical size inside the allocation         *)

Fields(height, width) ==
    { [height |-> height, width |-> width, data |-> d] :
        d \in [0 .. height * width - 1 -> EnergyLevels] }

UnitInit ==
    /\ img \in { TaggedImage(s[1], s[2]) : s \in Sizes }
    /\ cube = LoadCube(Cube(img.rows, img.cols, Depth), img)
    /\ H \in 1 .. img.rows
    /\ W \in 1 .. img.cols
    /\ in_width = W
    /\ in_height = H
    /\ new_width = W
    /\ new_height = H
    /\ energy = NoEnergy
    /\ seam = Empty
    /\ output = NoMat
    /\ touched = {}
    /\ dp_touched = {}
    /\ live_seams = 0
    /\ pc = "call"

CallFindVertical ==
    /\ pc = "call"
    /\ \E e \in Fields(H, W) :
          /\ energy' = e
          /\ seam' = find_vertical_seam(e, H, W)
          /\ dp_touched' = find_vertical_seam_indices(e, H, W)
    /\ pc' = "v_found"
    /\ live_seams' = live_seams + 1
    /\ UNCHANGED <<img, in_width, in_height, cube, new_width, new_height, H, W,
                   output, touched>>

CallFindHorizontal ==
    /\ pc = "call"
    /\ \E e \in Fields(H, W) :
          /\ energy' = e
          /\ seam' = find_horizontal_seam(e, H, W)
          /\ dp_touched' = find_horizontal_seam_indices(e, H, W)
    /\ pc' = "h_found"
    /\ live_seams' = live_seams + 1
    /\ UNCHANGED <<img, in_width, in_height, cube, new_width, new_height, H, W,
                   output, touched>>

CallDeleteVertical ==
    /\ pc = "call"
    /\ \E s \in [0 .. H - 1 -> 0 .. W - 1] :
          /\ seam' = s
          /\ LET r == delete_vertical_seam(cube, s, H, W)
             IN  /\ cube' = r.cube
                 /\ H' = r.height
                 /\ W' = r.width
          /\ touched' = delete_vertical_seam_coords(s, H, W)
    /\ pc' = "v_deleted"
    /\ UNCHANGED <<live_seams, img, in_width, in_height, new_width, new_height,
                   energy, output, dp_touched>>

CallDeleteHorizontal ==
    /\ pc = "call"
    /\ \E s \in [0 .. W - 1 -> 0 .. H - 1] :
          /\ seam' = s
          /\ LET r == delete_horizontal_seam(cube, s, H, W)
             IN  /\ cube' = r.cube
                 /\ H' = r.height
                 /\ W' = r.width
          /\ touched' = delete_horizontal_seam_coords(s, H, W)
    /\ pc' = "h_deleted"
    /\ UNCHANGED <<live_seams, img, in_width, in_height, new_width, new_height,
                   energy, output, dp_touched>>

UnitNext ==
    \/ CallFindVertical \/ CallFindHorizontal
    \/ CallDeleteVertical \/ CallDeleteHorizontal

UnitSpec == UnitInit /\ [][UnitNext]_vars

----------------------------------------------------------------------------
(* Properties *)

InBody == pc \in {"w_energy", "w_find", "w_show", "w_delete", "w_after",
                  "h_energy", "h_find", "h_show", "h_delete", "h_after"}

\* the logical dimensions exist from the clamp on
Started == pc \notin {"start", "not_found", "load", "energy0"}

ValidTarget ==
    /\ 1 <= in_width /\ in_width <= img.cols
    /\ 1 <= in_height /\ in_height <= img.rows

\* C1: for every target with 1 <= Wt <= W0 and 1 <= Ht <= H0 the carving loop
\* terminates, and at termination W = Wt and H = Ht.
C1_TerminatesAtTarget ==
    (pc = "load" /\ ValidTarget) ~> (pc = "done" /\ W = in_width /\ H = in_height)

C1_Witness ==
    /\ pc = "done" /\ ValidTarget
    /\ in_width < img.cols /\ in_height < img.rows
    /\ W = in_width /\ H = in_height

Abs(i) == IF i < 0 THEN -i ELSE i

\* the valid vertical paths: one column per row, consecutive columns at most 1 apart
VerticalPaths(height, width) ==
    { q \in [0 .. height - 1 -> 0 .. width - 1] :
        \A y \in 0 .. height - 2 : Abs(q[y] - q[y + 1]) <= 1 }

\* the valid horizontal paths: one row per column, consecutive rows at most 1 apart
HorizontalPaths(height, width) ==
    { q \in [0 .. width - 1 -> 0 .. height - 1] :
        \A x \in 0 .. width - 2 : Abs(q[x] - q[x + 1]) <= 1 }

RECURSIVE VPathEnergy(_, _, _)
VPathEnergy(e, q, y) ==
    IF y < 0 THEN 0 ELSE EnergyAt(e, y, q[y]) + VPathEnergy(e, q, y - 1)

RECURSIVE HPathEnergy(_, _, _)
HPathEnergy(e, q, x) ==
    IF x < 0 THEN 0 ELSE EnergyAt(e, q[x], x) + HPathEnergy(e, q, x - 1)

\* C2: the seam find_vertical_seam returns has total energy <= that of every
\* valid vertical path of the field, and the seam find_horizontal_seam returns
\* has total energy <= that of every valid horizontal path.
C2_SeamIsMinimal ==
    /\ pc = "v_found" =>
          \A q \in VerticalPaths(H, W) :
              VPathEnergy(energy, seam, H - 1) <= VPathEnergy(energy, q, H - 1)
    /\ pc = "h_found" =>
          \A q \in HorizontalPaths(H, W) :
              HPathEnergy(energy, seam, W - 1) <= HPathEnergy(energy, q, W - 1)

\* a 3-row search whose seam bends twice and beats some other path
C2_Witness ==
    /\ pc = "v_found" /\ H >= 3 /\ W >= 3
    /\ seam[0] # seam[1] /\ seam[1] # seam[2]
    /\ VPathEnergy(energy, seam, H - 1) > 0
    /\ \E q \in VerticalPaths(H, W) :
          VPathEnergy(energy, q, H - 1) > VPathEnergy(energy, seam, H - 1)

\* C3: adjacent entries of the seam find_vertical_seam returns differ by at
\* most 1, and so do adjacent entries of the seam find_horizontal_seam returns.
C3_SeamIsConnected ==
    /\ pc = "v_found" => \A y \in 0 .. H - 2 : Abs(seam[y] - seam[y + 1]) <= 1
    /\ pc = "h_found" => \A x \in 0 .. W - 2 : Abs(seam[x] - seam[x + 1]) <= 1

C3_Witness ==
    /\ pc = "h_found" /\ H >= 3 /\ W >= 3
    /\ seam[0] = seam[1] + 1 /\ seam[2] = seam[1] + 1

\* C4: delete_vertical_seam, given a seam with every index in range, leaves the
\* height, lowers the width by one and makes every row the old row without the
\* pixel at column seam[y], all three channels, the rest in their order;
\* delete_horizontal_seam is the transpose.
C4_DeleteRemovesSeam ==
    [][ /\ pc' = "v_deleted" =>
            /\ H' = H /\ W' = W - 1
            /\ \A y \in 0 .. H - 1 : \A x \in 0 .. W - 2 : \A ch \in 0 .. 2 :
                  CubeAt(cube', y, x, ch)
                    = CubeAt(cube, y, IF x < seam'[y] THEN x ELSE x + 1, ch)
        /\ pc' = "h_deleted" =>
            /\ W' = W /\ H' = H - 1
            /\ \A x \in 0 .. W - 1 : \A y \in 0 .. H - 2 : \A ch \in 0 .. 2 :
                  CubeAt(cube', y, x, ch)
                    = CubeAt(cube, IF y < seam'[x] THEN y ELSE y + 1, x, ch)
      ]_vars

\* a vertical deletion on fewer rows than are allocated, whose seam starts at
\* the left edge and ends at the right edge; what is left is img without the seam
C4_Witness ==
    /\ pc = "v_deleted" /\ H >= 2 /\ H < img.rows /\ W >= 2
    /\ seam[0] = 0 /\ seam[H - 1] = W
    /\ \A y \in 0 .. H - 1 : \A x \in 0 .. W - 1 :
          cubeToMat(cube, H, W).px[<<y, x>>]
            = img.px[<<y, IF x < seam[y] THEN x ELSE x + 1>>]

\* the first seam search of main on a 3x3 image whose pixel (1,1) is the one
\* bright pixel
OutlierCase ==
    /\ pc = "w_show" /\ H = 3 /\ W = 3 /\ img.rows = 3 /\ img.cols = 3
    /\ \E bg \in Backgrounds : img = OutlierImage(3, 3, bg, 1, 1)

\* C5 as stated: on the 3x3 buffer with the bright outlier at (1,1) the
\* vertical seam does not use column 1 at row 1.
C5_SeamAvoidsOutlier == OutlierCase => seam[1] # 1

\* C5 amended: on that buffer the outlier itself has energy 0 and its four
\* neighbours carry the energy; the seam is (0, 1, 0): it passes through the
\* outlier and uses none of the four neighbours.
C5_SeamThroughOutlier ==
    OutlierCase =>
        /\ EnergyAt(energy, 1, 1) = 0
        /\ \A q \in {<<0, 1>>, <<1, 0>>, <<1, 2>>, <<2, 1>>} : EnergyAt(energy, q[1], q[2]) > 0
        /\ seam[0] = 0 /\ seam[1] = 1 /\ seam[2] = 0

C5_Witness == OutlierCase /\ in_width = 2

\* C6 as stated: with a target width or height of 0 the run is rejected before
\* the loop: no seam is searched or removed, the dimensions stay W0 x H0.
C6_ZeroTargetRejected ==
    (Started /\ (in_width = 0 \/ in_height = 0)) =>
        /\ ~InBody
        /\ seam = Empty
        /\ H = img.rows /\ W = img.cols

\* C6 amended: a target of 0 is not rejected; the loop runs on that axis down
\* to the floor, so the run ends with that dimension equal to 1.
C6_ZeroTargetCarvesToFloor ==
    pc = "done" =>
        /\ in_width = 0 => W = 1
        /\ in_height = 0 => H = 1

C6_Witness ==
    /\ pc = "done" /\ in_width = 0 /\ in_height = 0
    /\ img.cols >= 3 /\ img.rows >= 3
    /\ W = 1 /\ H = 1

\* C7: find_vertical_seam returns exactly H entries, each in [0, W), and
\* find_horizontal_seam exactly W entries, each in [0, H), single row and
\* single column included; the -1 marker is never copied into the seam and no
\* index into dist / back lies outside the H x W tables.
C7_SeamInRange ==
    /\ pc = "v_found" =>
          /\ DOMAIN seam = 0 .. H - 1
          /\ \A y \in 0 .. H - 1 : 0 <= seam[y] /\ seam[y] < W
    /\ pc = "h_found" =>
          /\ DOMAIN seam = 0 .. W - 1
          /\ \A x \in 0 .. W - 1 : 0 <= seam[x] /\ seam[x] < H
    /\ pc \in {"v_found", "h_found"} =>
          \A i \in dp_touched : 0 <= i /\ i < H * W

\* the single-row vertical search
C7_Witness ==
    /\ pc = "v_found" /\ H = 1 /\ W >= 3
    /\ seam[0] = W - 1
    /\ dp_touched = 0 .. W - 1

\* C8: with Wt = W0 and Ht = H0 neither loop body runs, and at termination
\* every pixel and both dimensions are as loaded.
C8_EqualTargetChangesNothing ==
    (in_width = img.cols /\ in_height = img.rows) =>
        /\ ~InBody
        /\ pc = "done" =>
              /\ H = img.rows /\ W = img.cols
              /\ cube = LoadCube(Cube(img.rows, img.cols, Depth), img)
              /\ output = img

C8_Witness ==
    /\ pc = "done" /\ in_width = img.cols /\ in_height = img.rows
    /\ img.cols >= 2 /\ img.rows >= 2
    /\ output = img

\* C9: for every requested target, 1 <= W <= W0 and 1 <= H <= H0 in every
\* state of the carving loop; a target above the original removes nothing on
\* that axis, and a target below 1 stops that axis at 1.
C9_DimensionsStayInRange ==
    Started =>
        /\ 1 <= W /\ W <= img.cols
        /\ 1 <= H /\ H <= img.rows
        /\ in_width > img.cols => W = img.cols
        /\ in_height > img.rows => H = img.rows
        /\ W >= in_width \/ W = img.cols
        /\ H >= in_height \/ H = img.rows

C9_Witness ==
    /\ pc = "done" /\ in_width = 0 /\ in_height > img.rows
    /\ img.cols >= 3 /\ img.rows >= 2
    /\ W = 1 /\ H = img.rows

\* the logical height and width a step works with
LogicalH == IF Started THEN H ELSE img.rows
LogicalW == IF Started THEN W ELSE img.cols

\* C10: every coordinate (y, x) of the pixel buffer that a step of the run
\* reads or writes has y < the logical height and x < the logical width the
\* step starts with; no step touches a stale trailing column or row.
C10_AccessesInsideLogicalSize ==
    [][ \A q \in touched' :
          /\ 0 <= q[1] /\ q[1] < LogicalH
          /\ 0 <= q[2] /\ q[2] < LogicalW ]_vars

\* the energy of a buffer one column and one row smaller than its allocation
\* has been computed, wrapping at the logical edges
C10_Witness ==
    /\ pc = "h_find" /\ W < img.cols /\ H < img.rows /\ W >= 2 /\ H >= 2
    /\ touched = (0 .. H - 1) \X (0 .. W - 1)

\* the smallest element of a non-empty set of integers
Least(S) == CHOOSE m \in S : \A n \in S : m <= n

\* the in-range predecessor columns of column x in a vertical search, and the
\* in-range predecessor rows of row y in a horizontal search
VCandidates(x, width) == { c \in {x - 1, x, x + 1} : 0 <= c /\ c < width }
HCandidates(y, height) == { r \in {y - 1, y, y + 1} : 0 <= r /\ r < height }

\* the predecessor columns of (y, x) tied for the smallest dist in row y - 1
VTied(dist, y, x, width) ==
    { c \in VCandidates(x, width) :
        \A d \in VCandidates(x, width) : dist[(y - 1) * width + c] <= dist[(y - 1) * width + d] }

\* the predecessor rows of (y, x) tied for the smallest dist in column x - 1
HTied(dist, y, x, height, width) ==
    { r \in HCandidates(y, height) :
        \A d \in HCandidates(y, height) : dist[r * width + (x - 1)] <= dist[d * width + (x - 1)] }

\* straight first, then the lower index
StraightFirst(tied, straight) == IF straight \in tied THEN straight ELSE Least(tied)

\* C11 as stated: back[y][x] is the lowest-index predecessor among those tied
\* for the minimum (left-diagonal over straight over right-diagonal), and the
\* transpose in find_horizontal_seam.
C11_LowestIndexWinsTies ==
    /\ pc = "v_found" =>
          LET t == VTables(energy, H, W)
          IN  \A y \in 1 .. H - 1 : \A x \in 0 .. W - 1 :
                  t.back[y * W + x] = Least(VTied(t.dist, y, x, W))
    /\ pc = "h_found" =>
          LET t == HTables(energy, H, W)
          IN  \A x \in 1 .. W - 1 : \A y \in 0 .. H - 1 :
                  t.back[y * W + x] = Least(HTied(t.dist, y, x, H, W))

\* C11 amended: among the predecessors tied for the minimum, back[y][x] is the
\* straight one when it is tied, and otherwise the left-diagonal before the
\* right-diagonal; find_horizontal_seam is the transpose (same row, then upper
\* row before lower row).
C11_StraightWinsTies ==
    /\ pc = "v_found" =>
          LET t == VTables(energy, H, W)
          IN  \A y \in 1 .. H - 1 : \A x \in 0 .. W - 1 :
                  t.back[y * W + x] = StraightFirst(VTied(t.dist, y, x, W), x)
    /\ pc = "h_found" =>
          LET t == HTables(energy, H, W)
          IN  \A x \in 1 .. W - 1 : \A y \in 0 .. H - 1 :
                  t.back[y * W + x] = StraightFirst(HTied(t.dist, y, x, H, W), y)

\* a cell whose left-diagonal and straight predecessors tie for the minimum and
\* whose back entry is the straight one, and a cell whose two diagonals tie
\* below the straight one and whose back entry is the left one
C11_Witness ==
    /\ pc = "v_found" /\ H >= 2 /\ W >= 3
    /\ LET t == VTables(energy, H, W)
       IN  /\ VTied(t.dist, 1, 1, W) = {0, 1} /\ t.back[1 * W + 1] = 1
           /\ \E y \in 1 .. H - 1 :
                 VTied(t.dist, y, 1, W) = {0, 2} /\ t.back[y * W + 1] = 0

\* the program points of the width loop, and those from the height loop on
WidthPhase == {"w_test", "w_energy", "w_find", "w_show", "w_delete", "w_after"}
HeightPhase == {"h_test", "h_energy", "h_find", "h_show", "h_delete", "h_after",
                "export", "done"}

\* C12: the phases are strictly sequential: no horizontal seam is removed while
\* W > target width and W >= 2; once the height phase has begun no step of the
\* width phase is taken again and the width stays as it is; the height stays
\* as it is throughout the width phase.
C12_PhasesAreSequential ==
    [][ /\ (Started /\ H' # H) => ~(W > new_width /\ W >= 2)
        /\ pc \in HeightPhase => (pc' \in HeightPhase /\ W' = W)
        /\ pc \in WidthPhase => H' = H ]_vars

\* a horizontal seam has just been removed after the width phase removed a
\* vertical one and reached its target
C12_Witness ==
    /\ pc = "h_after" /\ W < img.cols /\ H < img.rows
    /\ W = new_width /\ W >= 2

\* C13: every seam a search produces is freed within the iteration that
\* consumes it: at the start of every iteration, and at termination, no seam
\* allocation is live.
C13_NoSeamLiveBetweenIterations ==
    pc \in {"w_test", "h_test", "export", "done"} => live_seams = 0

====
